---- MODULE Spec2Model ----
(***************************************************************************)
(* Model of franka_hardware: the real-time bridge franka_hardware::Robot   *)
(* (robot.cpp lines 26-127) and the ros2_control adapter                   *)
(* FrankaHardwareInterface (lines 164-334).                                *)
(*                                                                         *)
(* Two threads are modelled: the caller thread (the framework, or a direct *)
(* client of Robot) and the loop thread held by control_thread_.  A call   *)
(* of the caller thread is a sequence of steps; `stack` holds the steps    *)
(* still to run (the return addresses of the call in progress), so that    *)
(* the loop thread interleaves with a call exactly where the code lets it: *)
(* between Robot methods, while stopRobot() blocks in join(), and while a  *)
(* mutex is held.                                                          *)
(*                                                                         *)
(* Member defaults come from the class declarations (stopped_ = true,      *)
(* finish_ = false, use_velocity_control_ = false, both adapter flags      *)
(* false, zero-initialised franka::RobotState and std::array members).     *)
(***************************************************************************)
EXTENDS Integers, Sequences, FiniteSets, TLC

\* ------------------------------------------------------------------ bounds
\* Number of distinct telemetry samples the arm can deliver (0 is the
\* zero-initialised snapshot, never delivered by the arm).
MaxSample == 2
\* Finite command values the framework writes are 0..MaxCmd.
MaxCmd == 1
\* Where a std::array copy that is not atomic can be cut by the other thread.
CopySplit == 3
\* Entries of a mode-switch list that are not velocity interfaces.
MaxOther == 1
\* Velocity entries of a request for some joints only.
SomeJoints == 3

\* --------------------------------------------------------------- constants
kNumberOfJoints == 7

HW_IF_POSITION == "position"
HW_IF_VELOCITY == "velocity"
HW_IF_EFFORT == "effort"

Joints == 1..kNumberOfJoints

\* ----------------------------------------------------------------- doubles
\* A double is finite (with a value) or one of NaN, +inf, -inf.
D(n) == [cls |-> "finite", val |-> n]
NaN == [cls |-> "nan", val |-> 0]
PosInf == [cls |-> "inf", val |-> 1]
NegInf == [cls |-> "inf", val |-> -1]
NonFinite == {NaN, PosInf, NegInf}

isfinite(c) == c.cls = "finite"

\* std::array<double, 7>::fill(v)
Fill(v) == [i \in Joints |-> v]
Zero7 == Fill(D(0))

\* The finite vectors a caller writes, and the vectors with one non-finite
\* element the framework can leave in the command slots.
FiniteCommands == {Fill(D(n)) : n \in 0..MaxCmd}
Poisoned(k, x) == [Fill(D(1)) EXCEPT ![k] = x]
PoisonedCommands ==
    {Poisoned(1, NaN), Poisoned(CopySplit + 1, PosInf), Poisoned(kNumberOfJoints, NegInf)}

\* franka::RobotState, reduced to the three arrays the adapter reads; a
\* sample is named by a number, 0 being the value-initialised state.
Snapshot(n) == [q |-> n, dq |-> n, tau_J |-> n]
Samples == 1..MaxSample

\* -------------------------------------------------------------------- state
VARIABLES
    \* franka_hardware::Robot
    stopped_, finish_, use_velocity_control_,
    tau_command_, vel_command_, current_state_,
    control_thread_,          \* the loop thread: [kind, pc, out, published]
    read_mutex_, write_mutex_,\* "free", "caller" or "loop"
    \* FrankaHardwareInterface
    robot_,                   \* "null", "connected" or "destroyed"
    info_,                    \* hardware_interface::HardwareInfo
    lifecycle,                \* "unconfigured", "inactive", "active", "finalized"
    hw_commands_, hw_positions_, hw_velocities_, hw_efforts_,
    velocity_interface_claimed_, velocity_interface_running_,
    \* the caller thread
    stack,                    \* steps of the call in progress (return addresses)
    command,                  \* argument of Robot::write in progress
    kState,                   \* what Robot::read returned last
    last,                     \* outcome of the last completed step or call
    fault                     \* "none", or how the process died

robotVars == <<stopped_, finish_, use_velocity_control_, tau_command_, vel_command_,
               current_state_, control_thread_, read_mutex_, write_mutex_>>
adapterVars == <<robot_, info_, lifecycle, hw_commands_, hw_positions_, hw_velocities_,
                 hw_efforts_, velocity_interface_claimed_, velocity_interface_running_>>
callerVars == <<stack, command, kState, last, fault>>
vars == <<robotVars, adapterVars, callerVars>>

NoThread == [kind |-> "none", pc |-> "none", out |-> Zero7, published |-> FALSE]
NewThread(k) == [kind |-> k, pc |-> "idle", out |-> Zero7, published |-> FALSE]

\* The loop thread exists and has not returned from its thread function.
ThreadAlive == control_thread_.pc \notin {"none", "exited", "joined"}

\* Robot::isStopped
isStopped == stopped_

\* The spec's ControlLoopMode.
LoopMode ==
    IF stopped_ THEN "Stopped"
    ELSE CASE control_thread_.kind = "reading" -> "ContinuousReading"
           [] control_thread_.kind = "torque" -> "TorqueControl"
           [] control_thread_.kind = "velocity" -> "VelocityControl"
           [] OTHER -> "Stopped"

Idle == stack = <<>> /\ fault = "none"
Running(label) == fault = "none" /\ stack # <<>> /\ Head(stack) = label

\* The default member initialisers of Robot (class declaration): no loop,
\* stopped, flags clear, a value-initialised state snapshot.
RobotDefaults ==
    /\ stopped_ = TRUE
    /\ finish_ = FALSE
    /\ use_velocity_control_ = FALSE
    /\ current_state_ = Snapshot(0)
    /\ control_thread_ = NoThread
    /\ read_mutex_ = "free"
    /\ write_mutex_ = "free"

\* Robot::Robot: both command slots filled with 0, then the connection.
RobotInit ==
    /\ RobotDefaults
    /\ tau_command_ = Zero7
    /\ vel_command_ = Zero7

\* ------------------------------------------------------------ Robot methods
\* Robot::write, lines 41-46: the slot the command goes to.
WriteSlot == IF use_velocity_control_ THEN "vel" ELSE "tau"

\* The first CopySplit elements of `new` over `old`: an array copy cut short.
PartialCopy(old, new) == [i \in Joints |-> IF i <= CopySplit THEN new[i] ELSE old[i]]

\* Robot::read and the callbacks without their lock_guard on read_mutex_.
ReadLockFree_Always == TRUE

\* Robot::write and the control callbacks without their lock_guard on
\* write_mutex_.
WriteLockFree_Always == TRUE

\* std::lock_guard on write_mutex_ / read_mutex_: the caller may take it.
WriteLockFree == write_mutex_ = "free"
ReadLockFree == read_mutex_ = "free"

\* Robot::write, first half: takes write_mutex_ and starts the copy.
RobotWrite ==
    /\ Running("write")
    /\ WriteLockFree
    /\ write_mutex_' = "caller"
    /\ IF WriteSlot = "vel"
         THEN vel_command_' = PartialCopy(vel_command_, command) /\ UNCHANGED tau_command_
         ELSE tau_command_' = PartialCopy(tau_command_, command) /\ UNCHANGED vel_command_
    /\ stack' = <<"write_rest">> \o Tail(stack)
    /\ UNCHANGED <<stopped_, finish_, use_velocity_control_, current_state_,
                   control_thread_, read_mutex_, adapterVars, command, kState, last, fault>>

\* Robot::write, second half: completes the copy and releases write_mutex_.
RobotWriteRest ==
    /\ Running("write_rest")
    /\ write_mutex_' = "free"
    /\ IF WriteSlot = "vel"
         THEN vel_command_' = command /\ UNCHANGED tau_command_
         ELSE tau_command_' = command /\ UNCHANGED vel_command_
    /\ stack' = Tail(stack)
    /\ command' = Zero7
    /\ last' = "write"
    /\ UNCHANGED <<stopped_, finish_, use_velocity_control_, current_state_,
                   control_thread_, read_mutex_, adapterVars, kState, fault>>

\* Robot::read: the copy of current_state_ made under read_mutex_.
RobotRead ==
    /\ Running("read")
    /\ ReadLockFree
    /\ kState' = current_state_
    /\ stack' = Tail(stack)
    /\ last' = "read"
    /\ UNCHANGED <<robotVars, adapterVars, command, fault>>

\* stopRobot without its guard `if (not stopped_)`.
stopRobot_Unguarded ==
    /\ Running("stopRobot")
    /\ finish_' = TRUE
    /\ stack' = <<"join">> \o Tail(stack)
    /\ UNCHANGED <<stopped_, use_velocity_control_, tau_command_, vel_command_,
                   current_state_, control_thread_, read_mutex_, write_mutex_,
                   adapterVars, command, kState, last, fault>>

\* Robot::stopRobot up to the join: no-op when stopped, else raises finish_.
stopRobot ==
    /\ Running("stopRobot")
    /\ IF ~stopped_
         THEN /\ finish_' = TRUE
              /\ stack' = <<"join">> \o Tail(stack)
              /\ UNCHANGED last
         ELSE /\ stack' = Tail(stack)
              /\ last' = IF last \in {"stop_joined", "stop_twice"}
                          THEN "stop_twice" ELSE "stop_noop"
              /\ UNCHANGED finish_
    /\ UNCHANGED <<stopped_, use_velocity_control_, tau_command_, vel_command_,
                   current_state_, control_thread_, read_mutex_, write_mutex_,
                   adapterVars, command, kState, fault>>

\* stopRobot that does not wait for the thread (detach in place of join).
stopRobotJoin_NoWait ==
    /\ Running("join")
    /\ finish_' = FALSE
    /\ stopped_' = TRUE
    /\ stack' = Tail(stack)
    /\ last' = "stop_joined"
    /\ UNCHANGED <<use_velocity_control_, tau_command_, vel_command_, current_state_,
                   control_thread_, read_mutex_, write_mutex_, adapterVars, command,
                   kState, fault>>

\* stopRobot without `finish_ = false` after the join.
stopRobotJoin_KeepsFinish ==
    /\ Running("join")
    /\ control_thread_.pc = "exited"
    /\ control_thread_' = [NoThread EXCEPT !.pc = "joined"]
    /\ stopped_' = TRUE
    /\ stack' = Tail(stack)
    /\ last' = "stop_joined"
    /\ UNCHANGED <<finish_, use_velocity_control_, tau_command_, vel_command_,
                   current_state_, read_mutex_, write_mutex_, adapterVars, command,
                   kState, fault>>

\* control_thread_->join() and the two assignments after it.  join() returns
\* once the thread function has returned; on a thread that was never created
\* or was joined before it fails (null dereference, std::system_error).
stopRobotJoin ==
    /\ Running("join")
    /\ control_thread_.pc \notin {"idle", "publishing", "published", "commanding"}
    /\ IF control_thread_.pc = "exited"
         THEN /\ control_thread_' = [NoThread EXCEPT !.pc = "joined"]
              /\ finish_' = FALSE
              /\ stopped_' = TRUE
              /\ stack' = Tail(stack)
              /\ last' = "stop_joined"
              /\ UNCHANGED fault
         ELSE /\ fault' = "join"
              /\ UNCHANGED <<control_thread_, finish_, stopped_, stack, last>>
    /\ UNCHANGED <<use_velocity_control_, tau_command_, vel_command_, current_state_,
                   read_mutex_, write_mutex_, adapterVars, command, kState>>

\* A loop start that also resets the two pending-command slots.
StartLoop_ClearsCommand(label, kind, usevel) ==
    /\ Running(label)
    /\ stopped_' = FALSE
    /\ use_velocity_control_' = usevel
    /\ control_thread_' = NewThread(kind)
    /\ tau_command_' = Zero7
    /\ vel_command_' = Zero7
    /\ stack' = Tail(stack)
    /\ last' = label
    /\ UNCHANGED <<finish_, current_state_, read_mutex_, write_mutex_, adapterVars,
                   command, kState, fault>>

\* assert(isStopped()); stopped_ = false; ...; control_thread_ = new thread.
\* A failed assertion ends the process.
StartLoop(label, kind, usevel) ==
    /\ Running(label)
    /\ IF isStopped
         THEN /\ stopped_' = FALSE
              /\ use_velocity_control_' = usevel
              /\ control_thread_' = NewThread(kind)
              /\ stack' = Tail(stack)
              /\ last' = label
              /\ UNCHANGED fault
         ELSE /\ fault' = "assert"
              /\ UNCHANGED <<stopped_, use_velocity_control_, control_thread_, stack, last>>
    /\ UNCHANGED <<finish_, tau_command_, vel_command_, current_state_, read_mutex_,
                   write_mutex_, adapterVars, command, kState>>

initializeTorqueControl ==
    StartLoop("initializeTorqueControl", "torque", use_velocity_control_)

initializeVelocityControl ==
    StartLoop("initializeVelocityControl", "velocity", TRUE)

initializeContinuousReading ==
    StartLoop("initializeContinuousReading", "reading", use_velocity_control_)

\* ------------------------------------------------------------ the loop thread
\* Every control callback returning the torque slot.
CommandSlot_AlwaysTorque(kind) == tau_command_

\* The command a control callback returns: tau_command_ (line 74) or
\* vel_command_ (line 96).
CommandSlot(kind) == IF kind = "torque" THEN tau_command_ ELSE vel_command_

\* Callbacks that never report the finish flag to the library.
Finished_Never == FALSE

\* Callbacks that end their loop whatever the finish flag says.
Finished_Always == TRUE

\* What a callback tells the library: motion_finished = finish_ (lines 75, 97),
\* return not finish_ (line 115).
Finished == finish_

\* A callback invocation with a fresh state from the arm: takes read_mutex_
\* and starts current_state_ = state.
CallbackPublishBegin ==
    /\ fault = "none"
    /\ control_thread_.pc = "idle"
    /\ ReadLockFree
    /\ read_mutex_' = "loop"
    /\ \E s \in Samples : current_state_' = [current_state_ EXCEPT !.q = s]
    /\ control_thread_' = [control_thread_ EXCEPT !.pc = "publishing"]
    /\ UNCHANGED <<stopped_, finish_, use_velocity_control_, tau_command_, vel_command_,
                   write_mutex_, adapterVars, callerVars>>

\* The callback without the inner block: read_mutex_ is held until the
\* callback returns.
CallbackPublishEnd_NoScope ==
    /\ fault = "none"
    /\ control_thread_.pc = "publishing"
    /\ current_state_' = Snapshot(current_state_.q)
    /\ control_thread_' = [control_thread_ EXCEPT !.pc = "published", !.published = TRUE]
    /\ UNCHANGED <<stopped_, finish_, use_velocity_control_, tau_command_, vel_command_,
                   read_mutex_, write_mutex_, adapterVars, callerVars>>

\* The rest of current_state_ = state, and the end of the lock's scope.
CallbackPublishEnd ==
    /\ fault = "none"
    /\ control_thread_.pc = "publishing"
    /\ current_state_' = Snapshot(current_state_.q)
    /\ read_mutex_' = "free"
    /\ control_thread_' = [control_thread_ EXCEPT !.pc = "published", !.published = TRUE]
    /\ UNCHANGED <<stopped_, finish_, use_velocity_control_, tau_command_, vel_command_,
                   write_mutex_, adapterVars, callerVars>>

\* Control loops: takes write_mutex_ and copies the pending command.
CallbackCommand ==
    /\ fault = "none"
    /\ control_thread_.pc = "published"
    /\ control_thread_.kind \in {"torque", "velocity"}
    /\ WriteLockFree
    /\ write_mutex_' = "loop"
    /\ control_thread_' = [control_thread_ EXCEPT !.pc = "commanding",
                                                  !.out = CommandSlot(control_thread_.kind)]
    /\ UNCHANGED <<stopped_, finish_, use_velocity_control_, tau_command_, vel_command_,
                   current_state_, read_mutex_, adapterVars, callerVars>>

\* Control loops: out.motion_finished = finish_; return out.  The library
\* leaves control() when motion_finished is set, and the thread ends.
CallbackReturn ==
    /\ fault = "none"
    /\ control_thread_.pc = "commanding"
    /\ write_mutex_' = "free"
    /\ control_thread_' = [control_thread_ EXCEPT
                             !.pc = IF Finished THEN "exited" ELSE "idle",
                             !.out = Zero7]
    /\ UNCHANGED <<stopped_, finish_, use_velocity_control_, tau_command_, vel_command_,
                   current_state_, read_mutex_, adapterVars, callerVars>>

\* Continuous reading: return not finish_; read() returns on false.
ReadingReturn ==
    /\ fault = "none"
    /\ control_thread_.pc = "published"
    /\ control_thread_.kind = "reading"
    /\ control_thread_' = [control_thread_ EXCEPT
                             !.pc = IF Finished THEN "exited" ELSE "idle"]
    /\ UNCHANGED <<stopped_, finish_, use_velocity_control_, tau_command_, vel_command_,
                   current_state_, read_mutex_, write_mutex_, adapterVars, callerVars>>

LoopThread ==
    \/ CallbackPublishBegin
    \/ CallbackPublishEnd
    \/ CallbackCommand
    \/ CallbackReturn
    \/ ReadingReturn

\* Robot::~Robot: stopRobot(), then the object is gone.
RobotDestroyed ==
    /\ Running("destroyed")
    /\ robot_' = "destroyed"
    /\ lifecycle' = "finalized"
    /\ stack' = Tail(stack)
    /\ last' = "destroyed"
    /\ UNCHANGED <<robotVars, info_, hw_commands_, hw_positions_, hw_velocities_,
                   hw_efforts_, velocity_interface_claimed_, velocity_interface_running_,
                   command, kState, fault>>

\* The Robot methods the adapter uses.
RobotSteps ==
    \/ RobotWrite
    \/ RobotWriteRest
    \/ stopRobot
    \/ stopRobotJoin
    \/ initializeVelocityControl
    \/ initializeContinuousReading
    \/ RobotDestroyed

\* --------------------------------------------- a direct client of the bridge
\* A thread that owns a connected Robot and calls its public methods, one
\* call at a time.
Call(steps) ==
    /\ Idle
    /\ robot_ = "connected"
    /\ stack' = steps
    /\ UNCHANGED <<robotVars, adapterVars, command, kState, last, fault>>

ClientStop == Call(<<"stopRobot">>)
ClientStartTorque == Call(<<"initializeTorqueControl">>)
ClientStartVelocity == Call(<<"initializeVelocityControl">>)
ClientStartReading == Call(<<"initializeContinuousReading">>)
ClientRead == Call(<<"read">>)
ClientDestroy == Call(<<"stopRobot", "destroyed">>)

ClientWrite ==
    /\ Idle
    /\ robot_ = "connected"
    /\ \E c \in FiniteCommands : command' = c
    /\ stack' = <<"write">>
    /\ UNCHANGED <<robotVars, adapterVars, kState, last, fault>>

ValidInfo == [joints |-> [j \in Joints |->
                 [command_interfaces |-> <<HW_IF_VELOCITY>>,
                  state_interfaces |-> <<HW_IF_POSITION, HW_IF_VELOCITY, HW_IF_EFFORT>>]],
              robot_ip |-> TRUE, reachable |-> TRUE]

\* The default member initialisers of FrankaHardwareInterface (class
\* declaration): zeroed slots, both flags false.
AdapterDefaults ==
    /\ hw_commands_ = Zero7
    /\ hw_positions_ = 0
    /\ hw_velocities_ = 0
    /\ hw_efforts_ = 0
    /\ velocity_interface_claimed_ = FALSE
    /\ velocity_interface_running_ = FALSE

\* A constructed adapter before on_init, handed a valid configuration.
AdapterInit ==
    /\ AdapterDefaults
    /\ robot_ = "null"
    /\ info_ = ValidInfo
    /\ lifecycle = "unconfigured"

CallerInit ==
    /\ stack = <<>>
    /\ command = Zero7
    /\ kState = Snapshot(0)
    /\ last = "none"
    /\ fault = "none"

\* A constructed Robot in the hands of a direct client.
InitBridge ==
    /\ RobotInit
    /\ CallerInit
    /\ AdapterDefaults
    /\ robot_ = "connected"
    /\ info_ = ValidInfo
    /\ lifecycle = "unconfigured"

NextBridge ==
    \/ ClientStop
    \/ ClientStartTorque
    \/ ClientStartVelocity
    \/ ClientStartReading
    \/ ClientRead
    \/ ClientWrite
    \/ ClientDestroy
    \/ RobotSteps
    \/ RobotRead
    \/ initializeTorqueControl
    \/ LoopThread

SpecBridge == InitBridge /\ [][NextBridge]_vars

\* The library keeps invoking the callback (weak fairness of the loop
\* thread), and a caller blocked in join() resumes once the thread is done.
FairBridge == SpecBridge /\ WF_vars(LoopThread) /\ WF_vars(stopRobotJoin)

\* ------------------------------------------------- FrankaHardwareInterface
\* on_init, lines 233-248: the checks on one joint that return ERROR.  The
\* three checks of the state-interface names (lines 249-263) only log.
JointRejected(joint) ==
    \/ Len(joint.command_interfaces) # 1
    \/ joint.command_interfaces[1] # HW_IF_VELOCITY
    \/ Len(joint.state_interfaces) # 3

\* on_init up to line 271: validation fails before any connection is made.
InitRejected(info) ==
    \/ Len(info.joints) # kNumberOfJoints
    \/ \E i \in DOMAIN info.joints : JointRejected(info.joints[i])
    \/ ~info.robot_ip

\* on_init: validation, then robot_ = std::make_unique<Robot>(...), which
\* throws franka::Exception when the arm is not reachable.
on_init ==
    /\ Idle
    /\ lifecycle = "unconfigured"
    /\ robot_ = "null"
    /\ last = "none"
    /\ IF InitRejected(info_)
         THEN last' = "on_init:ERROR" /\ UNCHANGED <<robot_, lifecycle>>
         ELSE IF info_.reachable
           THEN robot_' = "connected" /\ lifecycle' = "inactive" /\ last' = "on_init:SUCCESS"
           ELSE last' = "on_init:connect_failed" /\ UNCHANGED <<robot_, lifecycle>>
    /\ UNCHANGED <<robotVars, info_, hw_commands_, hw_positions_, hw_velocities_,
                   hw_efforts_, velocity_interface_claimed_, velocity_interface_running_,
                   stack, command, kState, fault>>

\* on_activate: initializeContinuousReading(), then the rest.
on_activate ==
    /\ Idle
    /\ lifecycle = "inactive"
    /\ stack' = <<"initializeContinuousReading", "on_activate_read">>
    /\ UNCHANGED <<robotVars, adapterVars, command, kState, last, fault>>

\* FrankaHardwareInterface::read: kState = robot_->read(), copied to the slots.
ReadInto ==
    /\ ReadLockFree
    /\ kState' = current_state_
    /\ hw_positions_' = current_state_.q
    /\ hw_velocities_' = current_state_.dq
    /\ hw_efforts_' = current_state_.tau_J

\* on_activate from line 190: hw_commands_.fill(0); read(); return SUCCESS.
on_activate_read ==
    /\ Running("on_activate_read")
    /\ hw_commands_' = Fill(D(0))
    /\ ReadInto
    /\ lifecycle' = "active"
    /\ stack' = Tail(stack)
    /\ last' = "on_activate"
    /\ UNCHANGED <<robotVars, robot_, info_, velocity_interface_claimed_,
                   velocity_interface_running_, command, fault>>

\* on_deactivate: robot_->stopRobot(), then return SUCCESS.
on_deactivate ==
    /\ Idle
    /\ lifecycle = "active"
    /\ stack' = <<"stopRobot", "on_deactivate_return">>
    /\ UNCHANGED <<robotVars, adapterVars, command, kState, last, fault>>

on_deactivate_return ==
    /\ Running("on_deactivate_return")
    /\ lifecycle' = "inactive"
    /\ stack' = Tail(stack)
    /\ last' = "on_deactivate"
    /\ UNCHANGED <<robotVars, robot_, info_, hw_commands_, hw_positions_, hw_velocities_,
                   hw_efforts_, velocity_interface_claimed_, velocity_interface_running_,
                   command, kState, fault>>

\* FrankaHardwareInterface::read (ReadCycle).
read ==
    /\ Idle
    /\ robot_ = "connected"
    /\ ReadInto
    /\ last' = "read:OK"
    /\ UNCHANGED <<robotVars, robot_, info_, lifecycle, hw_commands_,
                   velocity_interface_claimed_, velocity_interface_running_,
                   stack, command, fault>>

\* The controller writes the exported command interfaces (lines 177-185).
SetCommand ==
    /\ Idle
    /\ robot_ = "connected"
    /\ \E c \in FiniteCommands \cup PoisonedCommands : hw_commands_' = c
    /\ UNCHANGED <<robotVars, robot_, info_, lifecycle, hw_positions_, hw_velocities_,
                   hw_efforts_, velocity_interface_claimed_, velocity_interface_running_,
                   callerVars>>

\* The check with std::isnan in place of not std::isfinite.
AnyNonFinite_NaNOnly(cmd) == \E i \in DOMAIN cmd : cmd[i].cls = "nan"

\* write, line 213: std::any_of(..., not std::isfinite(c)).
AnyNonFinite(cmd) == \E i \in DOMAIN cmd : ~isfinite(cmd[i])

\* FrankaHardwareInterface::write (WriteCycle).
write ==
    /\ Idle
    /\ robot_ = "connected"
    /\ IF AnyNonFinite(hw_commands_)
         THEN last' = "write:ERROR" /\ UNCHANGED <<stack, command>>
         ELSE command' = hw_commands_ /\ stack' = <<"write">> /\ UNCHANGED last
    /\ UNCHANGED <<robotVars, adapterVars, kState, fault>>

\* An interface name is a sequence of words ("panda_joint3/velocity" is
\* <<"joint", "velocity">>); interface.find(HW_IF_VELOCITY) != npos.
is_velocity_interface(interface) ==
    \E k \in DOMAIN interface : interface[k] = HW_IF_VELOCITY

\* std::count_if(list, is_velocity_interface)
CountVelocity(list) == Cardinality({k \in DOMAIN list : is_velocity_interface(list[k])})

\* prepare_command_mode_switch, lines 310-320 and 322-332: what one list
\* does to the claimed flag, or that it throws.
StopOutcome(n, claimed) ==
    IF n = kNumberOfJoints THEN [claimed |-> FALSE, throws |-> FALSE]
    ELSE IF n # 0 THEN [claimed |-> claimed, throws |-> TRUE]
    ELSE [claimed |-> claimed, throws |-> FALSE]

\* The start list accepted from 7 entries up (>= in place of ==).
StartOutcome_AtLeast(n, claimed) ==
    IF n >= kNumberOfJoints THEN [claimed |-> TRUE, throws |-> FALSE]
    ELSE IF n # 0 THEN [claimed |-> claimed, throws |-> TRUE]
    ELSE [claimed |-> claimed, throws |-> FALSE]

StartOutcome(n, claimed) ==
    IF n = kNumberOfJoints THEN [claimed |-> TRUE, throws |-> FALSE]
    ELSE IF n # 0 THEN [claimed |-> claimed, throws |-> TRUE]
    ELSE [claimed |-> claimed, throws |-> FALSE]

\* The lists the framework passes: n velocity interfaces and m others.
InterfaceList(n, m) ==
    [k \in 1..(n + m) |-> IF k <= n THEN <<"joint", HW_IF_VELOCITY>>
                          ELSE <<"joint", HW_IF_POSITION>>]
VelocityCounts == {0, SomeJoints, kNumberOfJoints}
InterfaceLists ==
    {InterfaceList(n, m) : n \in VelocityCounts, m \in {0, MaxOther}}
    \cup {InterfaceList(kNumberOfJoints + 1, 0)}
\* The requests of a controller that claims all joints, some or none.
FewInterfaceLists == {InterfaceList(n, MaxOther) : n \in VelocityCounts}

PrepareResult(start_interfaces, stop_interfaces, claimed) ==
    LET afterStop == StopOutcome(CountVelocity(stop_interfaces), claimed)
        afterStart == StartOutcome(CountVelocity(start_interfaces), afterStop.claimed)
    IN  IF afterStop.throws THEN afterStop ELSE afterStart

\* prepare_command_mode_switch(start_interfaces, stop_interfaces)
Prepare(start_interfaces, stop_interfaces) ==
    /\ Idle
    /\ robot_ = "connected"
    /\ LET r == PrepareResult(start_interfaces, stop_interfaces,
                              velocity_interface_claimed_)
       IN  /\ velocity_interface_claimed_' = r.claimed
           /\ last' = IF r.throws THEN "prepare:invalid_argument" ELSE "prepare:OK"
    /\ UNCHANGED <<robotVars, robot_, info_, lifecycle, hw_commands_, hw_positions_,
                   hw_velocities_, hw_efforts_, velocity_interface_running_,
                   stack, command, kState, fault>>

PrepareWith(lists) ==
    \E start_interfaces \in lists, stop_interfaces \in lists :
        Prepare(start_interfaces, stop_interfaces)

prepare_command_mode_switch == PrepareWith(FewInterfaceLists)

\* perform_command_mode_switch, lines 291-299: the branch taken.
PerformBranch ==
    IF ~velocity_interface_running_ /\ velocity_interface_claimed_ THEN "velocity"
    ELSE IF velocity_interface_running_ /\ ~velocity_interface_claimed_ THEN "reading"
    ELSE "none"

\* The mode switch without robot_->stopRobot() before the new loop starts.
perform_command_mode_switch_NoStop ==
    /\ Idle
    /\ robot_ = "connected"
    /\ CASE PerformBranch = "velocity" ->
              /\ stack' = <<"initializeVelocityControl", "perform_running">>
              /\ UNCHANGED last
         [] PerformBranch = "reading" ->
              /\ stack' = <<"initializeContinuousReading", "perform_not_running">>
              /\ UNCHANGED last
         [] OTHER ->
              /\ last' = "perform:unchanged"
              /\ UNCHANGED stack
    /\ UNCHANGED <<robotVars, adapterVars, command, kState, fault>>

perform_command_mode_switch ==
    /\ Idle
    /\ robot_ = "connected"
    /\ CASE PerformBranch = "velocity" ->
              /\ stack' = <<"stopRobot", "initializeVelocityControl", "perform_running">>
              /\ UNCHANGED last
         [] PerformBranch = "reading" ->
              /\ stack' = <<"stopRobot", "initializeContinuousReading", "perform_not_running">>
              /\ UNCHANGED last
         [] OTHER ->
              /\ last' = "perform:unchanged"
              /\ UNCHANGED stack
    /\ UNCHANGED <<robotVars, adapterVars, command, kState, fault>>

\* velocity_interface_running_ = true (line 294) / false (line 298); return OK.
perform_set_running(label, value) ==
    /\ Running(label)
    /\ velocity_interface_running_' = value
    /\ stack' = Tail(stack)
    /\ last' = IF value THEN "perform:velocity" ELSE "perform:reading"
    /\ UNCHANGED <<robotVars, robot_, info_, lifecycle, hw_commands_, hw_positions_,
                   hw_velocities_, hw_efforts_, velocity_interface_claimed_,
                   command, kState, fault>>

perform_running == perform_set_running("perform_running", TRUE)
perform_not_running == perform_set_running("perform_not_running", FALSE)

\* The adapter is destroyed, and robot_ with it: Robot::~Robot.
Destroy ==
    /\ Idle
    /\ robot_ = "connected"
    /\ stack' = <<"stopRobot", "destroyed">>
    /\ UNCHANGED <<robotVars, adapterVars, command, kState, last, fault>>

AdapterSteps ==
    \/ on_activate_read
    \/ on_deactivate_return
    \/ perform_running
    \/ perform_not_running

Init == RobotInit /\ AdapterInit /\ CallerInit

\* The framework protocol (Initialize, then Activate and Deactivate
\* alternating, cycle and mode-switch calls only while active).
WhileActive ==
    /\ lifecycle = "active"
    /\ \/ read
       \/ SetCommand
       \/ write
       \/ prepare_command_mode_switch
       \/ perform_command_mode_switch

Next ==
    \/ on_init
    \/ on_activate
    \/ on_deactivate
    \/ WhileActive
    \/ Destroy
    \/ AdapterSteps
    \/ RobotSteps
    \/ LoopThread

Spec == Init /\ [][Next]_vars

\* The loop thread keeps being scheduled (the library keeps invoking the
\* callback and a waiting lock_guard gets the mutex), and a caller inside
\* Robot::write leaves its critical section.
FairSpec == Spec /\ SF_vars(LoopThread) /\ WF_vars(RobotWriteRest)

\* Mode-switch and read calls in any order, also while inactive; Activate and
\* Deactivate still alternate.  The requests are all of InterfaceLists.
prepare_any == PrepareWith(InterfaceLists)

NextAnyOrder ==
    \/ on_init
    \/ on_activate
    \/ on_deactivate
    \/ read
    \/ prepare_any
    \/ perform_command_mode_switch
    \/ Destroy
    \/ AdapterSteps
    \/ stopRobot
    \/ stopRobotJoin
    \/ initializeVelocityControl
    \/ initializeContinuousReading
    \/ RobotDestroyed
    \/ LoopThread

SpecAnyOrder == Init /\ [][NextAnyOrder]_vars

\* ------------------------------------------------------ on_init on its inputs
\* Joint declarations: the expected one and ways to get one wrong.
GoodJoint == [command_interfaces |-> <<HW_IF_VELOCITY>>,
              state_interfaces |-> <<HW_IF_POSITION, HW_IF_VELOCITY, HW_IF_EFFORT>>]
JointShapes ==
    {GoodJoint}
    \cup {[GoodJoint EXCEPT !.command_interfaces = c] :
            c \in {<<>>, <<HW_IF_POSITION>>, <<HW_IF_EFFORT>>,
                   <<HW_IF_VELOCITY, HW_IF_VELOCITY>>, <<HW_IF_VELOCITY, HW_IF_EFFORT>>}}
    \cup {[GoodJoint EXCEPT !.state_interfaces = t] :
            t \in {<<>>, <<HW_IF_POSITION, HW_IF_VELOCITY>>,
                   <<HW_IF_POSITION, HW_IF_VELOCITY, HW_IF_EFFORT, HW_IF_EFFORT>>,
                   <<HW_IF_VELOCITY, HW_IF_POSITION, HW_IF_EFFORT>>,
                   <<HW_IF_POSITION, HW_IF_EFFORT, HW_IF_VELOCITY>>,
                   <<HW_IF_POSITION, HW_IF_VELOCITY, HW_IF_VELOCITY>>,
                   <<HW_IF_POSITION, HW_IF_POSITION, HW_IF_EFFORT>>}}

\* n joints, all as expected but joint k, which has the given shape.
InfoWith(n, k, shape, ip, reachable) ==
    [joints |-> [j \in 1..n |-> IF j = k THEN shape ELSE GoodJoint],
     robot_ip |-> ip, reachable |-> reachable]

Infos ==
    {InfoWith(n, k, shape, ip, reachable) :
        n \in {0, kNumberOfJoints - 1, kNumberOfJoints, kNumberOfJoints + 1},
        k \in 1..(kNumberOfJoints + 1), shape \in JointShapes,
        ip \in BOOLEAN, reachable \in BOOLEAN}

InitAnyInfo ==
    /\ RobotInit
    /\ CallerInit
    /\ AdapterDefaults
    /\ robot_ = "null"
    /\ info_ \in Infos
    /\ lifecycle = "unconfigured"

NextInit == on_init

SpecInit == InitAnyInfo /\ [][NextInit]_vars

\* ===================================================================== claims

\* A step on which a stopRobot() call returns (or dies).
StopReturns == stopRobotJoin \/ (stopRobot /\ stopped_)

\* C1: Stop() is idempotent.  Every Stop() returns without a fault, with
\* stopped_ true and no loop thread alive; a Stop() called while stopped_ is
\* already true (the second of two in a row) does no join and leaves every
\* member of the bridge as it was.
C1_StopIdempotent ==
    [][StopReturns =>
         /\ fault' = "none"
         /\ stopped_'
         /\ ~ThreadAlive'
         /\ ~finish_'
         /\ stopped_ => (UNCHANGED robotVars /\ stack' = Tail(stack))]_vars

\* C1 witness: a loop was running, Stop() joined it, and the next call was
\* Stop() again.
C1_Witness ==
    /\ last = "stop_twice"
    /\ control_thread_.pc = "joined"
    /\ stopped_
    /\ Idle

\* C2: Stop() never returns before the loop thread has exited.  Whenever the
\* bridge is stopped (stopped_ is set only as Stop() returns) or destroyed,
\* no loop thread is alive and no callback holds a lock.
C2_StopJoinsThread ==
    (stopped_ \/ robot_ = "destroyed" \/ last \in {"stop_joined", "stop_twice", "stop_noop"})
        => (~ThreadAlive /\ read_mutex_ = "free" /\ write_mutex_ # "loop")

\* C2 witness: the destructor's Stop() has joined a loop that was running.
C2_Witness ==
    /\ robot_ = "destroyed"
    /\ control_thread_.pc = "joined"
    /\ last = "destroyed"

\* C3: Write(c) stores c into the slot of the active mode: the torque slot
\* while the torque loop runs, the velocity slot while the velocity loop runs.
C3_WriteToActiveSlot ==
    [][RobotWriteRest =>
         /\ LoopMode = "TorqueControl" => tau_command_' = command
         /\ LoopMode = "VelocityControl" => vel_command_' = command]_vars

\* The claim's "at least one non-finite (NaN or infinite) element".
HasNonFinite(cmd) == \E i \in Joints : cmd[i] \in NonFinite

\* C4: WriteCycle with a non-finite element among the 7 command slots returns
\* the write failure and leaves the torque slot and the velocity slot as they
\* were, whatever loop is running.
C4_RejectLeavesCommand ==
    [][(write /\ HasNonFinite(hw_commands_)) =>
         /\ last' = "write:ERROR"
         /\ stack' = <<>>
         /\ UNCHANGED <<tau_command_, vel_command_, command>>]_vars

\* C4 witness: a cycle was rejected while the velocity loop runs with an
\* earlier command pending.
C4_Witness ==
    /\ last = "write:ERROR"
    /\ HasNonFinite(hw_commands_)
    /\ LoopMode = "VelocityControl"
    /\ vel_command_ # Zero7

\* A WriteCycle forwarded v while the velocity loop runs, and v is pending.
WrittenPending(v) ==
    /\ last = "write"
    /\ vel_command_ = v
    /\ control_thread_.kind = "velocity"
    /\ ThreadAlive

\* The loop thread has taken v as its control output, or v was replaced.
Observed(v) ==
    \/ control_thread_.pc = "commanding" /\ control_thread_.out = v
    \/ vel_command_ # v

\* C5: every finite vector v that WriteCycle forwards while the control loop
\* runs is eventually the loop thread's control output, unless a later write
\* replaced it first (last write wins).
C5_WriteDelivered == \A v \in FiniteCommands : WrittenPending(v) ~> Observed(v)

\* C5 witness: the callback outputs a non-zero vector that WriteCycle wrote.
C5_Witness ==
    /\ last = "write"
    /\ control_thread_.kind = "velocity"
    /\ control_thread_.pc = "commanding"
    /\ control_thread_.out = Fill(D(1))

\* C6: the state Activate's own read and an immediately following ReadCycle
\* copy into the slots was published by a completed iteration of the loop
\* that this Activate started.
C6_ActivateReadsFresh ==
    [][(on_activate_read \/ (read /\ last = "on_activate"))
          => control_thread_.published]_vars

\* The configuration the claim calls valid: 7 joints, each with the one
\* velocity command interface and position, velocity, effort in that order.
ConfigValid(info) ==
    /\ Len(info.joints) = kNumberOfJoints
    /\ \A i \in DOMAIN info.joints :
         /\ info.joints[i].command_interfaces = <<HW_IF_VELOCITY>>
         /\ info.joints[i].state_interfaces =
              <<HW_IF_POSITION, HW_IF_VELOCITY, HW_IF_EFFORT>>

\* C7: Initialize on a configuration that fails validation returns ERROR and
\* creates (attempts) no connection.
C7_InitValidates ==
    (last # "none" /\ ~ConfigValid(info_)) => (last = "on_init:ERROR" /\ robot_ = "null")

\* The claim's count of velocity entries in a list, and a count that is
\* neither none nor all joints.
VelocityEntries(list) ==
    Cardinality({k \in DOMAIN list : list[k][Len(list[k])] = HW_IF_VELOCITY})
PartialCount(n) == n # 0 /\ n # kNumberOfJoints

\* C8 as stated: 7 velocity entries in start_interfaces set claimed, 7 in
\* stop_interfaces clear it, a partial count in either list raises
\* invalid_argument, and no bridge loop is started or stopped.
C8_PrepareAsStated ==
    [][\A s \in InterfaceLists, t \in InterfaceLists :
         Prepare(s, t) =>
           /\ VelocityEntries(s) = kNumberOfJoints => velocity_interface_claimed_'
           /\ VelocityEntries(t) = kNumberOfJoints => ~velocity_interface_claimed_'
           /\ (PartialCount(VelocityEntries(s)) \/ PartialCount(VelocityEntries(t)))
                => last' = "prepare:invalid_argument"
           /\ UNCHANGED <<robotVars, stack>>]_vars

\* C8 amended: the stop list is looked at first.  7 velocity entries in
\* start_interfaces set claimed when the stop list has none or 7; 7 in
\* stop_interfaces clear it when the start list has none; a partial count in
\* either list raises invalid_argument (and only that does); no bridge loop
\* is started or stopped.
C8_PrepareAmended ==
    [][\A s \in InterfaceLists, t \in InterfaceLists :
         Prepare(s, t) =>
           LET ns == VelocityEntries(s)
               nt == VelocityEntries(t)
               partial == PartialCount(ns) \/ PartialCount(nt)
           IN  /\ (ns = kNumberOfJoints /\ ~PartialCount(nt)) => velocity_interface_claimed_'
               /\ (nt = kNumberOfJoints /\ ns = 0) => ~velocity_interface_claimed_'
               /\ partial <=> last' = "prepare:invalid_argument"
               /\ ~partial => last' = "prepare:OK"
               /\ UNCHANGED <<robotVars, stack, velocity_interface_running_>>]_vars

\* C8 witness: the interface was claimed while the reading loop kept running.
C8_Witness ==
    /\ last = "prepare:OK"
    /\ velocity_interface_claimed_
    /\ ~velocity_interface_running_
    /\ LoopMode = "ContinuousReading"
    /\ ThreadAlive

\* C9: PerformModeSwitch on an active adapter commits the claimed flag:
\* claimed with the loop in ContinuousReading ends in VelocityControl, not
\* claimed with the loop in VelocityControl ends in ContinuousReading.  The
\* call returns on the step that finds nothing to do, or after the switch.
C9_PerformCommits ==
    [][/\ (perform_command_mode_switch /\ PerformBranch = "none" /\ lifecycle = "active") =>
            /\ (velocity_interface_claimed_ /\ LoopMode = "ContinuousReading")
                  => LoopMode' = "VelocityControl"
            /\ (~velocity_interface_claimed_ /\ LoopMode = "VelocityControl")
                  => LoopMode' = "ContinuousReading"
       /\ (perform_running /\ lifecycle = "active") => LoopMode' = "VelocityControl"
       /\ (perform_not_running /\ lifecycle = "active") => LoopMode' = "ContinuousReading"
      ]_vars

\* C10: under the framework protocol every loop start finds the bridge
\* stopped with no loop thread alive, so the assertion never fails and there
\* is never more than one loop thread.
C10_StartFromStopped ==
    [][(initializeVelocityControl \/ initializeContinuousReading) =>
         /\ stopped_
         /\ ~ThreadAlive
         /\ fault' = "none"
         /\ ThreadAlive']_vars

\* C10 witness: the velocity loop runs, started by a mode switch that first
\* stopped the reading loop Activate had started.
C10_Witness ==
    /\ last = "perform:velocity"
    /\ lifecycle = "active"
    /\ LoopMode = "VelocityControl"
    /\ ThreadAlive
    /\ fault = "none"

\* A franka::RobotState all of whose arrays come from one sample.
Untorn(state) == state.dq = state.q /\ state.tau_J = state.q

\* C11: Read() returns an untorn snapshot.  Every read copies current_state_
\* as it stands while no publish is in progress, which is one whole sample;
\* current_state_ changes only inside a callback's publish (under
\* read_mutex_), so before the first publish it is the zero-initialised
\* snapshot and afterwards the snapshot last published in full.
C11_ReadUntorn ==
    [][/\ (RobotRead \/ read \/ on_activate_read) =>
            /\ kState' = current_state_
            /\ Untorn(kState')
            /\ read_mutex_ = "free"
       /\ current_state_' # current_state_ =>
            \/ CallbackPublishBegin /\ read_mutex_' = "loop"
            \/ CallbackPublishEnd /\ read_mutex_ = "loop" /\ Untorn(current_state_')
      ]_vars

\* C11 witness: Read() returned the last whole snapshot, and the loop thread
\* is now in the middle of publishing a different one.
C11_Witness ==
    /\ last = "read"
    /\ kState = Snapshot(MaxSample)
    /\ control_thread_.pc = "publishing"
    /\ ~Untorn(current_state_)

\* C12: Stop() terminates.  Once Stop() has set the finish flag on a running
\* loop, and the loop thread keeps being scheduled, the callback sees the
\* flag, the thread exits and Stop() returns with the bridge stopped.
C12_StopTerminates ==
    (finish_ /\ ThreadAlive) ~> (stopped_ /\ ~ThreadAlive /\ ~finish_ /\ last = "stop_joined")

\* C12 witness: Stop() has joined a loop thread of a bridge in velocity mode
\* and returned.
C12_Witness ==
    /\ last = "stop_joined"
    /\ stopped_
    /\ use_velocity_control_
    /\ control_thread_.pc = "joined"
    /\ Idle

\* C13: the two locks are never nested.  No thread holds read_mutex_ and
\* write_mutex_ at once, the callback has released read_mutex_ when it takes
\* write_mutex_, and the caller holds neither while it waits in join().
C13_LocksNotNested ==
    /\ ~(read_mutex_ = "loop" /\ write_mutex_ = "loop")
    /\ ~(read_mutex_ = "caller" /\ write_mutex_ = "caller")
    /\ control_thread_.pc = "commanding" => (write_mutex_ = "loop" /\ read_mutex_ = "free")
    /\ Running("join") => (read_mutex_ # "caller" /\ write_mutex_ # "caller")

\* C13 witness: Stop() waits in join() while the callback, past its publish,
\* holds write_mutex_ alone.
C13_Witness ==
    /\ Running("join")
    /\ control_thread_.pc = "commanding"
    /\ write_mutex_ = "loop"
    /\ read_mutex_ = "free"

\* C14: a pending command is replaced whole.  Every vector a torque or
\* velocity callback outputs is the initial all-zero vector or one vector
\* passed to Write(), never elements of two of them.
C14_CommandWhole ==
    control_thread_.pc = "commanding" => control_thread_.out \in {Zero7} \cup FiniteCommands

\* C14 witness: the torque callback outputs a written vector while the caller
\* waits for write_mutex_ with a different one.
C14_Witness ==
    /\ control_thread_.kind = "torque"
    /\ control_thread_.pc = "commanding"
    /\ control_thread_.out = Fill(D(MaxCmd))
    /\ Running("write")
    /\ command = Zero7

\* C15: cancellation is cooperative.  A loop thread ends only on the return of
\* a callback that saw finish_ set, after that callback published its state
\* and, in a control loop, read its command; so it never ends unless Stop()
\* raised the flag.
C15_CooperativeCancel ==
    [][(ThreadAlive /\ ~ThreadAlive') =>
         /\ finish_
         /\ control_thread_'.pc = "exited"
         /\ control_thread_.published
         /\ Untorn(current_state_)
         /\ IF control_thread_.kind = "reading"
              THEN ReadingReturn /\ control_thread_.pc = "published"
              ELSE CallbackReturn /\ control_thread_.pc = "commanding"
         /\ Running("join")]_vars

\* C15 witness: a torque loop thread has exited while Stop() waits in join().
C15_Witness ==
    /\ control_thread_.kind = "torque"
    /\ control_thread_.pc = "exited"
    /\ control_thread_.published
    /\ finish_
    /\ Running("join")

\* C16: while the adapter is active and no call is in progress,
\* velocity_interface_running_ is true exactly when the bridge's loop is
\* VelocityControl.
C16_RunningMatchesLoop ==
    (lifecycle = "active" /\ Idle) =>
        (velocity_interface_running_ <=> LoopMode = "VelocityControl")

\* C17: a PrepareModeSwitch that raises invalid_argument leaves the claimed
\* flag as it was before the call.
C17_PrepareErrorAtomic ==
    [][(prepare_any /\ last' = "prepare:invalid_argument")
          => UNCHANGED velocity_interface_claimed_]_vars

\* C18: only Write() changes the pending-command slots: Stop(), the three
\* loop starts, Activate (with its zeroing of hw_commands_) and every other
\* step leave tau_command_ and vel_command_ as they were, and a callback of a
\* newly started loop outputs what its slot holds.
C18_CommandSlotsFramed ==
    [][/\ (tau_command_' # tau_command_ \/ vel_command_' # vel_command_)
            => (RobotWrite \/ RobotWriteRest)
       /\ CallbackCommand =>
            control_thread_'.out = IF control_thread_.kind = "torque"
                                    THEN tau_command_ ELSE vel_command_
      ]_vars

\* C18 witness: a velocity loop started by a mode switch, with no write since,
\* outputs the non-zero vector left in the slot by an earlier activation,
\* while hw_commands_ is all zero.
C18_Witness ==
    /\ last = "perform:velocity"
    /\ control_thread_.kind = "velocity"
    /\ control_thread_.pc = "commanding"
    /\ control_thread_.out = Fill(D(MaxCmd))
    /\ hw_commands_ = Zero7

\* C19: finish_ is false whenever the bridge is stopped and whenever a loop
\* thread is started; it is true only from Stop() setting it until the join
\* of the loop thread completes.
C19_FinishOnlyDuringStop ==
    [][/\ stopped_' => ~finish_'
       /\ finish_' => (Running("join")' /\ control_thread_'.pc # "joined")
       /\ (initializeTorqueControl \/ initializeVelocityControl
              \/ initializeContinuousReading) => (~finish_ /\ ~finish_')
      ]_vars

\* C19 witness: a torque loop started after the Stop() of a velocity loop is
\* alive, has completed iterations and finish_ is false.
C19_Witness ==
    /\ control_thread_.kind = "torque"
    /\ use_velocity_control_
    /\ control_thread_.published
    /\ control_thread_.pc = "idle"
    /\ ~finish_
    /\ Idle

\* C20: the bridge has no running loop while the adapter is not active: with
\* no call in progress, an inactive adapter's bridge is stopped, whatever
\* cycle and mode-switch calls were made since Initialize or Deactivate.
C20_InactiveIsStopped ==
    (lifecycle = "inactive" /\ Idle) => isStopped

====
